---------------------------- MODULE Spec2Model ----------------------------
(***************************************************************************)
(* A model of flotilla.visualize.decomposition.DecompositionViz: the       *)
(* constructor (grouping, colour and marker assignment, loading scaling,   *)
(* magnitude ranking, top-feature selection) and the render methods.       *)
(*                                                                         *)
(* The caller's arguments are the variable args; the objects built from    *)
(* them are inst[1] and inst[2].  Numbers the code computes in floating    *)
(* point are modelled exactly: a number is sgn * sqrt(n / d), or one of    *)
(* numpy's nan and inf, so that norms, products and quotients are closed.  *)
(* Feature k is the k-th column label of components_, sample k the k-th    *)
(* row label of reduced_space.                                             *)
(***************************************************************************)
EXTENDS Integers, Sequences, FiniteSets, TLC

VARIABLES args, inst

vars == <<args, inst>>

-----------------------------------------------------------------------------
(* Bounds of the model *)

\* rows of reduced_space
NSamples == 2
\* columns of components_
MaxFeatures == 3
\* largest n_top_pc_features tried
MaxTop == 4

\* values a raw loading takes
LoadVals == {-1, 0, 2}
\* values a sample coordinate takes
SampleVals == {0, 1}
\* values an explained variance takes
VarVals == {1, 2}
\* the dimension keys of both tables, and the keys a caller may name
Dims == {"pc_1", "pc_2"}
PCKeys == {"pc_1", "pc_2", "pc_3"}
\* group labels
Labels == {"a", "b"}
Inst == {1, 2}

\* an optional argument is None or Some(v)
None == <<>>

Some(v) == <<v>>

The(o) == o[1]

-----------------------------------------------------------------------------
(* Exact arithmetic on sgn * sqrt(n / d), with numpy's nan and inf *)

RECURSIVE GCD(_, _)
GCD(a, b) == IF b = 0 THEN a ELSE GCD(b, a % b)

Sign(c) == IF c > 0 THEN 1 ELSE IF c < 0 THEN -1 ELSE 0

AbsInt(c) == IF c < 0 THEN -c ELSE c

ISqrt(n) == CHOOSE r \in 0..n : r * r = n

NaN == [k |-> "nan", s |-> 0, n |-> 0, d |-> 1]

Inf(s) == [k |-> "inf", s |-> s, n |-> 0, d |-> 1]

\* sgn * sqrt(n / d) in lowest terms
Fin(s, n, d) ==
    IF n = 0 \/ s = 0 THEN [k |-> "fin", s |-> 0, n |-> 0, d |-> 1]
    ELSE LET g == GCD(n, d) IN [k |-> "fin", s |-> s, n |-> n \div g, d |-> d \div g]

Zero == Fin(0, 0, 1)

FromInt(c) == Fin(Sign(c), c * c, 1)

IsZero(a) == a.k = "fin" /\ a.s = 0

Mul(a, b) ==
    IF a.k = "nan" \/ b.k = "nan" THEN NaN
    ELSE IF a.k = "inf" \/ b.k = "inf"
         THEN IF IsZero(a) \/ IsZero(b) THEN NaN ELSE Inf(a.s * b.s)
    ELSE Fin(a.s * b.s, a.n * b.n, a.d * b.d)

\* numpy float division: x / 0 is inf (nan for 0 / 0), with a warning, no exception
Div(a, b) ==
    IF a.k = "nan" \/ b.k = "nan" THEN NaN
    ELSE IF b.k = "inf" THEN (IF a.k = "inf" THEN NaN ELSE Zero)
    ELSE IF a.k = "inf" THEN Inf(a.s * (IF b.s = 0 THEN 1 ELSE b.s))
    ELSE IF IsZero(b) THEN (IF IsZero(a) THEN NaN ELSE Inf(a.s))
    ELSE Fin(a.s * b.s, a.n * b.d, a.d * b.n)

Abs(a) == IF a.k = "nan" THEN NaN ELSE [a EXCEPT !.s = IF a.s = 0 THEN 0 ELSE 1]

\* a + b for a, b >= 0: (sqrt p + sqrt q)^2 = p + q + 2 sqrt(p q)
AddNonNeg(a, b) ==
    IF a.k = "nan" \/ b.k = "nan" THEN NaN
    ELSE IF a.k = "inf" \/ b.k = "inf" THEN Inf(1)
    ELSE IF IsZero(a) THEN b
    ELSE IF IsZero(b) THEN a
    ELSE LET pq == Fin(1, a.n * b.n, a.d * b.d)
             rn == ISqrt(pq.n)
             rd == ISqrt(pq.d)
         IN  Fin(1, a.n * b.d * rd + b.n * a.d * rd + 2 * rn * a.d * b.d,
                 a.d * b.d * rd)

\* sqrt(a^2 + b^2)
Hypot(a, b) ==
    IF a.k = "nan" \/ b.k = "nan" THEN NaN
    ELSE IF a.k = "inf" \/ b.k = "inf" THEN Inf(1)
    ELSE Fin(1, a.n * b.d + b.n * a.d, a.d * b.d)

\* a < b for a, b >= 0, neither nan (every comparison with nan is false)
Less(a, b) ==
    /\ a.k # "nan" /\ b.k # "nan"
    /\ IF a.k = "inf" THEN FALSE
       ELSE IF b.k = "inf" THEN TRUE
       ELSE a.n * b.d < b.n * a.d


-----------------------------------------------------------------------------
(* The constructor's arguments *)

Samples == 1..NSamples

\* the column labels of a components_ table
Features(components) == DOMAIN components["pc_1"]

Groupbys == {None} \cup {Some(g) : g \in [Samples -> Labels]}

\* order: None, or a list of distinct labels
Orders ==
    {None} \cup {Some(<<l>>) : l \in Labels}
           \cup {Some(q) : q \in {q \in Labels \X Labels : q[1] # q[2]}}

\* the defaults of n_vectors and n_top_pc_features
NVectorsDefault == 20
TopDefault == 50

BaseReduced ==
    [p \in Dims |-> [s \in Samples |-> IF (p = "pc_1") = (s = 1) THEN 1 ELSE 0]]

\* loadings -1, 0, 1, ... on pc_1 and 2, 4, 6, ... on pc_2: no two features are equal
\* in a raw loading or in a magnitude
BaseComponents ==
    [p \in Dims |-> [f \in 1..MaxFeatures |-> IF p = "pc_1" THEN f - 2 ELSE 2 * f]]

ZeroRow == [f \in 1..MaxFeatures |-> 0]

BaseVariance == [p \in Dims |-> IF p = "pc_1" THEN 1 ELSE 2]

\* the signature's defaults (lines 23-33) on the base tables
BaseArgs ==
    [reduced_space |-> BaseReduced,
     components_ |-> BaseComponents,
     explained_variance_ratio_ |-> None,
     groupby |-> None,
     singles |-> FALSE, pooled |-> FALSE, outliers |-> FALSE,
     featurewise |-> FALSE,
     order |-> None,
     scale_by_variance |-> TRUE,
     x_pc |-> "pc_1", y_pc |-> "pc_2",
     distance |-> "L1",
     n_vectors |-> NVectorsDefault,
     n_top_pc_features |-> TopDefault]

\* dimension keys, with the groupings and orders that precede their use
KeyArgs ==
    {[BaseArgs EXCEPT !.x_pc = x, !.y_pc = y, !.groupby = g, !.order = o] :
        x \in PCKeys, y \in PCKeys, g \in Groupbys, o \in Orders}

\* optional tables, groupings and orders
LifeArgs ==
    {[BaseArgs EXCEPT !.groupby = g, !.order = o,
                      !.explained_variance_ratio_ = ev,
                      !.singles = si, !.pooled = po, !.outliers = ou,
                      !.featurewise = fw] :
        g \in Groupbys, o \in Orders, ev \in {None, Some(BaseVariance)},
        si \in BOOLEAN, po \in BOOLEAN, ou \in BOOLEAN, fw \in BOOLEAN}

\* scale_by_variance and explained_variance_ratio_
VarianceChoices ==
    {<<TRUE, None>>, <<FALSE, None>>} \cup {<<TRUE, Some(ev)>> : ev \in [Dims -> VarVals]}

\* loadings, variances and the norm
LoadingArgs ==
    {[BaseArgs EXCEPT !.components_ = [BaseComponents EXCEPT !["pc_1"] = c],
                      !.scale_by_variance = v[1],
                      !.explained_variance_ratio_ = v[2], !.distance = d] :
        c \in [1..MaxFeatures -> LoadVals], v \in VarianceChoices, d \in {"L1", "L2"}}

\* every loading zero
ZeroArgs ==
    {[BaseArgs EXCEPT !.components_ = [p \in Dims |-> ZeroRow],
                      !.reduced_space = r,
                      !.explained_variance_ratio_ = ev, !.distance = d] :
        r \in {BaseReduced, [p \in Dims |-> [s \in Samples |-> 0]]},
        ev \in {None, Some(BaseVariance)}, d \in {"L1", "L2"}}

\* sample positions
SampleArgs ==
    {[BaseArgs EXCEPT !.reduced_space = r, !.distance = d] :
        r \in [Dims -> [Samples -> SampleVals]], d \in {"L1", "L2"}}

\* raw loadings and the top-feature count
TopArgs ==
    {[BaseArgs EXCEPT !.components_ = [BaseComponents EXCEPT !["pc_1"] = c],
                      !.n_top_pc_features = n] :
        c \in [1..MaxFeatures -> LoadVals], n \in 0..MaxTop}

\* x_pc = y_pc is left out: pandas then aligns on a duplicated row label
ArgsOk(a) == a.x_pc # a.y_pc

AllArgs ==
    {a \in KeyArgs \cup LifeArgs \cup LoadingArgs \cup ZeroArgs \cup SampleArgs \cup TopArgs :
        ArgsOk(a)}

-----------------------------------------------------------------------------
(* An instance *)

NoMap == [l \in {} |-> 0]

\* the seven marker shapes of line 143
Markers == <<"o", "^", "s", "v", "*", "D", "h">>

NoCall == [call |-> "none", err |-> "ok"]

\* before __init__ has run, and after it has raised `status`
Blank(status) ==
    [status |-> status,
     label_to_color |-> NoMap, label_to_marker |-> NoMap,
     colors |-> [n |-> 0, pos |-> 0], markers |-> 0,
     color_ordered |-> <<>>,
     loadings |-> NoMap, vars |-> NoMap,
     magnitudes |-> <<>>,
     top_features |-> {}, pc_loadings_labels |-> NoMap, pc_loadings |-> NoMap,
     result |-> NoCall]

Init ==
    /\ args \in AllArgs
    /\ inst = [i \in Inst |-> Blank("none")]


-----------------------------------------------------------------------------
(* Sequences *)

Range(q) == {q[k] : k \in DOMAIN q}

\* the orderings of a finite set
Perms(S) ==
    {q \in [1..Cardinality(S) -> S] : \A j, k \in 1..Cardinality(S) : q[j] = q[k] => j = k}

\* Python's q[:h] and q[-h:] for h >= 0; -0 is 0, so q[-0:] is the whole of q
SliceFirst(q, h) == SubSeq(q, 1, IF h < Len(q) THEN h ELSE Len(q))

SliceLast(q, h) ==
    IF h = 0 THEN q
    ELSE SubSeq(q, (IF h < Len(q) THEN Len(q) - h ELSE 0) + 1, Len(q))

-----------------------------------------------------------------------------
(* __init__, lines 130-154: grouping, colours and markers *)

\* line 131: without groupby every sample is in the group 'all'
GroupOf(s) == IF args.groupby = None THEN "all" ELSE The(args.groupby)[s]

GroupLabels == {GroupOf(s) : s \in Samples}

\* iterating a pandas GroupBy yields the groups in sorted key order
SortedOrder == <<"a", "all", "b">>

Grouped == SelectSeq(SortedOrder, LAMBDA l : l \in GroupLabels)

\* iterating the dict grouped.groups yields its keys in CPython's hash order,
\* which is fixed for a given set of keys
HashOrder == <<"a", "b", "all">>

GroupsKeys == SelectSeq(HashOrder, LAMBDA l : l \in GroupLabels)

\* the palette iterator kept outside the instance: a second instance goes on where
\* the first stopped
ColorsShared(i) ==
    IF \E j \in Inst \ {i} : inst[j].status = "ok"
    THEN inst[CHOOSE j \in Inst \ {i} : inst[j].status = "ok"].colors
    ELSE [n |-> Len(Grouped), pos |-> 0]

\* line 135: a fresh iterator over a palette of len(grouped) colours
Colors(i) == [n |-> Len(Grouped), pos |-> 0]

\* line 143: a fresh cycle over the marker shapes
MarkerCycle(i) == 0

\* lines 137-140: colors.next() on the first lookup of a label; an exhausted
\* iterator raises StopIteration
color_factory(self, label) ==
    IF label \in DOMAIN self.label_to_color THEN self
    ELSE IF self.colors.pos >= self.colors.n THEN [self EXCEPT !.status = "StopIteration"]
    ELSE [self EXCEPT
            !.label_to_color = [l \in DOMAIN self.label_to_color \cup {label} |->
                                   IF l = label THEN self.colors.pos
                                   ELSE self.label_to_color[l]],
            !.colors.pos = @ + 1]

\* a plain dict filled on every lookup, not only on the first
marker_factoryEveryLookup(self, label) ==
    [self EXCEPT
        !.label_to_marker = [l \in DOMAIN self.label_to_marker \cup {label} |->
                                IF l = label THEN Markers[(self.markers % Len(Markers)) + 1]
                                ELSE self.label_to_marker[l]],
        !.markers = (@ + 1) % Len(Markers)]

\* lines 145-148: markers.next() on the first lookup of a label; the cycle never ends
marker_factory(self, label) ==
    IF label \in DOMAIN self.label_to_marker THEN self
    ELSE [self EXCEPT
            !.label_to_marker = [l \in DOMAIN self.label_to_marker \cup {label} |->
                                    IF l = label THEN Markers[(self.markers % Len(Markers)) + 1]
                                    ELSE self.label_to_marker[l]],
            !.markers = (@ + 1) % Len(Markers)]

\* lines 150-154: the colour of each label of order, or of each group
RECURSIVE ColorOrdered(_, _)
ColorOrdered(self, labels) ==
    IF labels = <<>> \/ self.status # "ok" THEN self
    ELSE LET s1 == color_factory(self, Head(labels))
         IN  IF s1.status # "ok" THEN s1
             ELSE ColorOrdered([s1 EXCEPT !.color_ordered =
                                   Append(@, s1.label_to_color[Head(labels)])],
                               Tail(labels))

Normalized(i) ==
    ColorOrdered([Blank("ok") EXCEPT !.colors = Colors(i), !.markers = MarkerCycle(i)],
                 IF args.order # None THEN The(args.order) ELSE GroupsKeys)


-----------------------------------------------------------------------------
(* __init__, lines 156-176: scaling and ranking *)

pcs(a) == {a.x_pc, a.y_pc}

FeatureSet(a) == Features(a.components_)

\* np.linalg.norm of a vector of integers
Norm(v) == LET RECURSIVE SumSq(_)
               SumSq(D) == IF D = {} THEN 0
                           ELSE LET k == CHOOSE k \in D : TRUE
                                IN  v[k] * v[k] + SumSq(D \ {k})
           IN  Fin(1, SumSq(DOMAIN v), 1)

\* the largest of a set of numbers >= 0
Max(S) == CHOOSE m \in S : \A o \in S : ~Less(m, o)

\* lines 159-162
Vars(a) == [p \in pcs(a) |-> IF a.explained_variance_ratio_ # None
                             THEN The(a.explained_variance_ratio_)[p] ELSE 1]

\* the variances applied to the x_pc row only
VarianceScaledFirstRow(a) ==
    [p \in pcs(a) |-> [f \in FeatureSet(a) |->
        IF a.scale_by_variance /\ p = a.x_pc THEN a.components_[p][f] * Vars(a)[p]
        ELSE a.components_[p][f]]]

\* lines 156, 164-165: the two rows of components_, times the variances if asked
VarianceScaled(a) ==
    [p \in pcs(a) |-> [f \in FeatureSet(a) |->
        IF a.scale_by_variance THEN a.components_[p][f] * Vars(a)[p]
        ELSE a.components_[p][f]]]

\* line 169: apply(norm, axis=0) is the norm of each column of reduced_space[[x_pc, y_pc]],
\* a column being one dimension's coordinates over all the samples
farthest_sample(a) == Max({Norm(a.reduced_space[p]) : p \in pcs(a)})

\* line 170: the norm of each column of loadings, a column being one feature
whole_space(a) ==
    LET scaled == VarianceScaled(a)
    IN  Max({Norm([p \in pcs(a) |-> scaled[p][f]]) : f \in FeatureSet(a)})

\* line 171
scale(a) == Div(Mul(Fin(1, 1, 16), farthest_sample(a)), whole_space(a))

\* line 172
Loadings(a) ==
    LET scaled == VarianceScaled(a)
        by == scale(a)
    IN  [p \in pcs(a) |-> [f \in FeatureSet(a) |-> Mul(FromInt(scaled[p][f]), by)]]

\* lines 174-175: np.linalg.norm(column, ord) of each feature's column of the loadings
Magnitude(a) ==
    LET l == Loadings(a)
    IN  [f \in FeatureSet(a) |->
            IF a.distance = "L2" THEN Hypot(l[a.x_pc][f], l[a.y_pc][f])
            ELSE AddNonNeg(Abs(l[a.x_pc][f]), Abs(l[a.y_pc][f]))]

\* line 176: Series.sort(ascending=False) puts the numbers first, largest first, in an
\* order among equals that the sort does not fix, and the nan entries last in index order
SortedDescending(m, q) ==
    \A j, k \in 1..Len(q) : j < k =>
        /\ m[q[j]].k = "nan" => m[q[k]].k = "nan"
        /\ ~Less(m[q[j]], m[q[k]])
        /\ (m[q[j]].k = "nan" /\ m[q[k]].k = "nan") => q[j] < q[k]

\* lines 175-176: the norms m of the features, as the descending sort may leave them
Ranked(m) ==
    {[k \in 1..Len(q) |-> [f |-> q[k], m |-> m[q[k]]]] :
        q \in {q \in Perms(DOMAIN m) : SortedDescending(m, q)}}

Magnitudes(a) == UNION {Ranked(m) : m \in {Magnitude(a)}}

-----------------------------------------------------------------------------
(* __init__, lines 178-195: the top features of each dimension *)

\* line 183: Series.sort(ascending=True), the order among equals not fixed
SortedAscending(x, q) == \A j, k \in 1..Len(q) : j < k => x[q[j]] <= x[q[k]]

\* line 184: int(n / 2) under true division
half_features == args.n_top_pc_features \div 2

\* the halves taken also when the feature count equals n_top_pc_features
TopLabelsAtCount(q) ==
    IF Len(q) >= args.n_top_pc_features
    THEN SliceFirst(q, half_features) \o SliceLast(q, half_features)
    ELSE q

\* lines 185-192: the labels kept of the sorted labels q
TopLabels(q) ==
    IF Len(q) > args.n_top_pc_features
    THEN SliceFirst(q, half_features) \o SliceLast(q, half_features)
    ELSE q

PcLabels(pc) ==
    {TopLabels(q) : q \in {q \in Perms(FeatureSet(args)) :
                              SortedAscending(args.components_[pc], q)}}

-----------------------------------------------------------------------------
(* __init__ *)

\* line 168: reduced_space[[x_pc, y_pc]] raises KeyError for a column it does not have;
\* line 182: components_.ix[pc] raises it for a row it does not have
KeysPresent == pcs(args) \subseteq Dims

Constructed(i) ==
    LET n == Normalized(i)
        labels == [p \in pcs(args) |-> PcLabels(p)]
    IN  IF n.status # "ok" THEN {Blank(n.status)}
        ELSE IF ~KeysPresent THEN {Blank("KeyError")}
        ELSE {[n EXCEPT !.loadings = Loadings(args),
                        !.vars = Vars(args),
                        !.magnitudes = mg,
                        !.pc_loadings_labels = lb,
                        !.pc_loadings = [p \in pcs(args) |->
                            [k \in 1..Len(lb[p]) |-> args.components_[p][lb[p][k]]]],
                        !.top_features = UNION {Range(lb[p]) : p \in pcs(args)}] :
                 mg \in Magnitudes(args),
                 lb \in {l \in [pcs(args) -> UNION {labels[p] : p \in pcs(args)}] :
                            \A p \in pcs(args) : l[p] \in labels[p]}}

Construct(i) ==
    /\ inst[i].status = "none"
    /\ \E self \in Constructed(i) : inst' = [inst EXCEPT ![i] = self]
    /\ UNCHANGED args

-----------------------------------------------------------------------------
(* The render methods.  Each returns the instance as the call leaves it; result is  *)
(* the call's name and the exception it raised ("ok" for none).                      *)

Returned(self, call, err) == [self EXCEPT !.status = "ok", !.result = [call |-> call, err |-> err]]

\* lines 336-338: the colour and the marker of each group, in sorted order
RECURSIVE GroupStyles(_, _)
GroupStyles(self, labels) ==
    IF labels = <<>> THEN self
    ELSE LET s1 == color_factory(self, Head(labels))
         IN  IF s1.status # "ok" THEN s1
             ELSE GroupStyles(marker_factory(s1, Head(labels)), Tail(labels))

\* lines 292-398.  The pooled and outlier overlays (lines 344-364) catch the
\* AttributeError of a table that is None, and change nothing of the instance
plot_samples(self) == GroupStyles(self, Grouped)

\* lines 400-431: pc_loadings[pc] raises KeyError for a pc that is neither x_pc nor y_pc
plot_loadings(self, pc) ==
    IF pc \in DOMAIN self.pc_loadings THEN self ELSE [self EXCEPT !.status = "KeyError"]

\* lines 433-451
plot_explained_variance(self) ==
    IF args.explained_variance_ratio_ # None THEN self
    ELSE [self EXCEPT !.status = "AssertionError"]

\* lines 461-462: the n_vectors first of the ranking, with the top features
vector_labels(self) ==
    {self.magnitudes[k].f : k \in 1..(IF args.n_vectors < Len(self.magnitudes)
                                      THEN args.n_vectors ELSE Len(self.magnitudes))}
        \cup self.top_features

\* the grid left empty, without an error, when singles is None
plot_violinsSkipped(self) ==
    IF vector_labels(self) = {} \/ ~args.singles THEN self
    ELSE IF ~args.pooled \/ ~args.outliers THEN [self EXCEPT !.status = "AttributeError"]
    ELSE self

\* lines 453-514: for the first label already, lines 491-493 set .name on the column
\* of singles, pooled and outliers, an AttributeError on None
plot_violins(self) ==
    IF vector_labels(self) = {} THEN self
    ELSE IF ~args.singles \/ ~args.pooled \/ ~args.outliers
         THEN [self EXCEPT !.status = "AttributeError"]
    ELSE self

\* lines 235-283: the colour of each sample's group, in row order
RECURSIVE SampleColors(_, _)
SampleColors(self, s) ==
    IF s > NSamples THEN self
    ELSE LET s1 == color_factory(self, GroupOf(s))
         IN  IF s1.status # "ok" THEN s1 ELSE SampleColors(s1, s + 1)

_plot_bokeh(self) == SampleColors(self, 1)

\* lines 197-233
plot(self, violins, bokeh) ==
    IF bokeh THEN _plot_bokeh(self)
    ELSE LET s1 == plot_samples(self)
             s2 == IF s1.status # "ok" THEN s1 ELSE plot_loadings(s1, args.x_pc)
             s3 == IF s2.status # "ok" THEN s2 ELSE plot_loadings(s2, args.y_pc)
         IN  IF s3.status # "ok" THEN s3
             ELSE IF violins /\ ~args.featurewise /\ args.singles THEN plot_violins(s3)
             ELSE s3

\* a call of a render method
Calls ==
    {[name |-> "plot", pc |-> "", violins |-> v, bokeh |-> b] : v \in BOOLEAN, b \in BOOLEAN}
    \cup {[name |-> "plot_loadings", pc |-> pc, violins |-> FALSE, bokeh |-> FALSE] : pc \in PCKeys}
    \cup {[name |-> n, pc |-> "", violins |-> FALSE, bokeh |-> FALSE] :
             n \in {"plot_samples", "plot_explained_variance", "plot_violins"}}

Rendered(self, c) ==
    LET after == CASE c.name = "plot" -> plot(self, c.violins, c.bokeh)
                   [] c.name = "plot_samples" -> plot_samples(self)
                   [] c.name = "plot_loadings" -> plot_loadings(self, c.pc)
                   [] c.name = "plot_explained_variance" -> plot_explained_variance(self)
                   [] c.name = "plot_violins" -> plot_violins(self)
    IN  Returned(after, c.name, after.status)

Render(i, c) ==
    /\ inst[i].status = "ok"
    /\ inst' = [inst EXCEPT ![i] = Rendered(inst[i], c)]
    /\ UNCHANGED args

Plot(i) == \E c \in Calls : c.name = "plot" /\ Render(i, c)

PlotSamples(i) == \E c \in Calls : c.name = "plot_samples" /\ Render(i, c)

PlotLoadings(i) == \E c \in Calls : c.name = "plot_loadings" /\ Render(i, c)

PlotExplainedVariance(i) == \E c \in Calls : c.name = "plot_explained_variance" /\ Render(i, c)

PlotViolins(i) == \E c \in Calls : c.name = "plot_violins" /\ Render(i, c)

-----------------------------------------------------------------------------
(* One instance, and its calls *)

Next ==
    \/ Construct(1)
    \/ Plot(1)
    \/ PlotSamples(1)
    \/ PlotLoadings(1)
    \/ PlotExplainedVariance(1)
    \/ PlotViolins(1)

Spec == Init /\ [][Next]_vars

(* Two instances built from the same arguments, and the same calls made on both *)

RenderTwice ==
    /\ \A i \in Inst : inst[i].status = "ok"
    /\ \E c \in Calls : inst' = [i \in Inst |-> Rendered(inst[i], c)]
    /\ UNCHANGED args

InitTwice ==
    /\ args \in {a \in KeyArgs \cup LifeArgs : ArgsOk(a)}
    /\ inst = [i \in Inst |-> Blank("none")]

NextTwice ==
    \/ \E i \in Inst : Construct(i)
    \/ RenderTwice

SpecTwice == InitTwice /\ [][NextTwice]_vars


-----------------------------------------------------------------------------
(* The claims *)

Built(i) == inst[i].status = "ok"

\* the exceptions of the code that are the specification's two kinds of error
ConfigurationError == {"KeyError"}

MissingDataError == {"AssertionError", "AttributeError"}

RenderNames == {"plot", "plot_samples", "plot_loadings", "plot_explained_variance", "plot_violins"}

\* the magnitude the ranking of instance i holds for feature f
RankedMagnitude(i, f) ==
    inst[i].magnitudes[CHOOSE k \in 1..Len(inst[i].magnitudes) : inst[i].magnitudes[k].f = f].m

\* a >= b as floating point has it: nan is not ordered
GreaterEq(a, b) == a.k # "nan" /\ b.k # "nan" /\ ~Less(a, b)

\* C1: with x_pc and y_pc both dimensions of the tables, construction never fails with
\* ConfigurationError; with either missing, construction always fails with it
C1_KeysDecideConstruction ==
    \A i \in Inst : inst[i].status # "none" =>
        (inst[i].status \in ConfigurationError <=> ~KeysPresent)

\* C2: the ranking has one entry per feature, its magnitude the L1 or L2 norm of the
\* feature's scaled loading on the two dimensions, and is non-increasing
C2_RankingIsNormSorted ==
    \A i \in Inst : Built(i) =>
        LET r == inst[i].magnitudes
            l == inst[i].loadings
            x == args.x_pc
            y == args.y_pc
        IN  /\ Len(r) = Cardinality(FeatureSet(args))
            /\ {r[k].f : k \in 1..Len(r)} = FeatureSet(args)
            /\ \A k \in 1..Len(r) :
                  r[k].m = IF args.distance = "L2" THEN Hypot(l[x][r[k].f], l[y][r[k].f])
                           ELSE AddNonNeg(Abs(l[x][r[k].f]), Abs(l[y][r[k].f]))
            /\ \A j, k \in 1..Len(r) : j < k => GreaterEq(r[j].m, r[k].m)

\* C3: with more features than the top-count N, a dimension's selection is the floor(N/2)
\* lowest raw loadings followed by the floor(N/2) highest, ascending, with their values
C3_HalvesSelected ==
    \A i \in Inst : Built(i) =>
        \A p \in pcs(args) :
            LET lab == inst[i].pc_loadings_labels[p]
                val == inst[i].pc_loadings[p]
                x == args.components_[p]
                h == args.n_top_pc_features \div 2
                rest == FeatureSet(args) \ Range(lab)
            IN  Cardinality(FeatureSet(args)) > args.n_top_pc_features =>
                    /\ Len(lab) = 2 * h
                    /\ Len(val) = Len(lab)
                    /\ \A j, k \in 1..Len(lab) : j < k => lab[j] # lab[k] /\ val[j] <= val[k]
                    /\ \A k \in 1..Len(lab) : val[k] = x[lab[k]]
                    /\ \A k \in 1..Len(lab), u \in rest :
                          IF k <= h THEN x[lab[k]] <= x[u] ELSE x[u] <= x[lab[k]]

\* C4: with the top-count N at least the feature count, a dimension's labels are all the
\* features, ascending by raw loading
C4_AllFeaturesSelected ==
    \A i \in Inst : Built(i) =>
        \A p \in pcs(args) :
            LET lab == inst[i].pc_loadings_labels[p]
                x == args.components_[p]
            IN  args.n_top_pc_features >= Cardinality(FeatureSet(args)) =>
                    /\ Len(lab) = Cardinality(FeatureSet(args))
                    /\ Range(lab) = FeatureSet(args)
                    /\ \A j, k \in 1..Len(lab) : j < k => x[lab[j]] <= x[lab[k]]

C4_Witness ==
    /\ Built(1)
    /\ args.n_top_pc_features = Cardinality(FeatureSet(args))
    /\ \E j, k \in 1..Len(inst[1].pc_loadings_labels[args.x_pc]) :
          /\ j < k
          /\ inst[1].pc_loadings_labels[args.x_pc][j] > inst[1].pc_loadings_labels[args.x_pc][k]

\* the arguments with the explained variance of both selected dimensions doubled
Doubled(a) ==
    [a EXCEPT !.explained_variance_ratio_ =
        Some([p \in Dims |-> IF p \in pcs(a) THEN 2 * The(@)[p] ELSE The(@)[p]])]

\* C5: with scale_by_variance, doubling the explained variance of both selected dimensions
\* leaves the ratio of any two features' magnitudes, and so the ranking, as it was
C5_DoublingKeepsRatios ==
    \A i \in Inst :
        (Built(i) /\ args.scale_by_variance /\ args.explained_variance_ratio_ # None) =>
            \A m2 \in {Magnitude(Doubled(args))} :
                /\ \A f, g \in FeatureSet(args) :
                      Mul(RankedMagnitude(i, f), m2[g]) = Mul(RankedMagnitude(i, g), m2[f])
                /\ SortedDescending(m2, [k \in 1..Len(inst[i].magnitudes) |->
                                            inst[i].magnitudes[k].f])

C5_Witness ==
    /\ Built(1) /\ args.scale_by_variance /\ args.explained_variance_ratio_ # None
    /\ The(args.explained_variance_ratio_)[args.x_pc] # The(args.explained_variance_ratio_)[args.y_pc]
    /\ \E f, g \in FeatureSet(args) :
          /\ Less(Zero, RankedMagnitude(1, f))
          /\ Less(RankedMagnitude(1, f), RankedMagnitude(1, g))

\* C6: two instances built from the same arguments, with no colours or markers given,
\* and given the same calls, hold the same colours and markers
C6_SameAssignments ==
    (\A i \in Inst : inst[i].status # "none") =>
        /\ inst[1].status = inst[2].status
        /\ inst[1].label_to_color = inst[2].label_to_color
        /\ inst[1].label_to_marker = inst[2].label_to_marker

C6_Witness ==
    /\ \A i \in Inst : Built(i) /\ inst[i].result.call = "plot_samples"
    /\ Cardinality(DOMAIN inst[2].label_to_color) = 2
    /\ Cardinality(DOMAIN inst[2].label_to_marker) = 2

\* C7: plot_violins without singles and plot_explained_variance without the explained
\* variance fail with MissingDataError at that call; construction does not
C7_MissingDataAtRender ==
    \A i \in Inst :
        /\ inst[i].status \notin MissingDataError
        /\ (Built(i) /\ inst[i].result.call = "plot_violins" /\ ~args.singles)
              => inst[i].result.err \in MissingDataError
        /\ (Built(i) /\ inst[i].result.call = "plot_explained_variance"
                     /\ args.explained_variance_ratio_ = None)
              => inst[i].result.err \in MissingDataError

C7_Witness ==
    /\ Built(1) /\ ~args.singles /\ args.explained_variance_ratio_ = None
    /\ inst[1].result = [call |-> "plot_violins", err |-> "AttributeError"]

\* the largest distance of a sample from the origin in the plane of x_pc and y_pc
FarthestSampleClaimed ==
    Max({Norm([p \in pcs(args) |-> args.reduced_space[p][s]]) : s \in Samples})

\* C8: every loading is multiplied by 0.25 * farthest_sample / whole_space, farthest_sample
\* the largest norm of a sample's own 2D position
C8_ScaleFromFarthestSample ==
    \A i \in Inst : Built(i) =>
        inst[i].loadings =
            [p \in pcs(args) |-> [f \in FeatureSet(args) |->
                Mul(FromInt(VarianceScaled(args)[p][f]),
                    Div(Mul(Fin(1, 1, 16), FarthestSampleClaimed), whole_space(args)))]]

\* C9: with every loading zero on the two dimensions, construction succeeds and the
\* scaled loadings and the magnitudes are zero
C9_ZeroLoadingsStayZero ==
    \A i \in Inst :
        (Built(i) /\ IsZero(whole_space(args))) =>
            /\ \A p \in pcs(args), f \in FeatureSet(args) : inst[i].loadings[p][f] = Zero
            /\ \A k \in 1..Len(inst[i].magnitudes) : inst[i].magnitudes[k].m = Zero

\* what __init__ derives
Derived(self) ==
    <<self.loadings, self.magnitudes, self.pc_loadings_labels, self.pc_loadings,
      self.top_features>>

\* C10: a render call leaves the scaled loadings, the ranking, the top-feature labels,
\* values and set as they were, and keeps every colour and marker already assigned
C10_RendersKeepDerived ==
    [][\A i \in Inst : Built(i) =>
          /\ Derived(inst'[i]) = Derived(inst[i])
          /\ \A l \in DOMAIN inst[i].label_to_color :
                /\ l \in DOMAIN inst'[i].label_to_color
                /\ inst'[i].label_to_color[l] = inst[i].label_to_color[l]
          /\ \A l \in DOMAIN inst[i].label_to_marker :
                /\ l \in DOMAIN inst'[i].label_to_marker
                /\ inst'[i].label_to_marker[l] = inst[i].label_to_marker[l]]_vars

C10_Witness ==
    /\ Built(1)
    /\ inst[1].result = [call |-> "plot", err |-> "ok"]
    /\ Cardinality(DOMAIN inst[1].label_to_marker) = 2

\* C11: with no label_to_color given, every label looked up for a colour gets one: no
\* construction and no render call ends in the palette's StopIteration, each label of
\* order holds a colour once the instance is built, and each group holds one once
\* plot_samples has returned
C11_PaletteNeverRunsOut ==
    \A i \in Inst :
        /\ inst[i].status # "StopIteration"
        /\ inst[i].result.err # "StopIteration"
        /\ (Built(i) /\ args.order # None)
              => Range(The(args.order)) \subseteq DOMAIN inst[i].label_to_color
        /\ (Built(i) /\ inst[i].result.call = "plot_samples")
              => GroupLabels \subseteq DOMAIN inst[i].label_to_color

\* C12: plot_violins on an instance that has singles returns without an error, whether
\* or not pooled and outliers were given
C12_PooledOutliersOptional ==
    \A i \in Inst :
        (Built(i) /\ args.singles /\ inst[i].result.call = "plot_violins")
            => inst[i].result.err = "ok"

=============================================================================
